---- MODULE Spec2Model ----
(***************************************************************************)
(* Model of minio_file (src/src/minio_file/minio_file.py): per-account     *)
(* credential resolution from the process environment, endpoint            *)
(* normalisation and construction of the underlying storage client.        *)
(*                                                                         *)
(* Python strings are sequences of one-character strings, so that          *)
(* str.replace and str.startswith are computed and not assumed.  None is   *)
(* the one-element sequence <<"None">>, which no string equals because     *)
(* every element of a string is a single character.                        *)
(***************************************************************************)
EXTENDS Naturals, Sequences, FiniteSets, TLC

VARIABLES environ, pc, call, self, conn, raised, getenv_log, m_log,
          op, client_calls, result, stdout, is_file_log

\* what the last operation on a constructed object, or the last run of main,
\* was given and did: the calls it made to the client, the value it returned,
\* the lines it printed and the files it looked for
op_vars == <<op, client_calls, result, stdout, is_file_log>>

vars == <<environ, pc, call, self, conn, raised, getenv_log, m_log, op_vars>>

----------------------------------------------------------------------------
(* Values *)

None == <<"None">>

HTTP == <<"h", "t", "t", "p", ":", "/", "/">>

HTTPS == <<"h", "t", "t", "p", "s", ":", "/", "/">>

WO == <<"W", "O">>
HO == <<"H", "O">>
ML == <<"M", "L">>
VIZ == <<"V", "I", "Z">>

\* the list literal of __init__
KnownAccounts == {WO, HO, ML, VIZ}

\* account arguments a caller may pass: the known tags, an unknown tag, and a
\* known tag in the wrong case
Accounts == KnownAccounts \cup {<<"U", "N", "K", "N", "O", "W", "N">>, <<"h", "o">>}

Fields == {"BUCKET", "ACCESS_KEY", "SECRET_KEY", "ENDPOINT"}

\* f"MINIO_{account}_{FIELD}": the name is determined by the pair
EnvName(account, field) == <<account, field>>

EnvNames == {EnvName(a, f) : a \in Accounts, f \in Fields}

----------------------------------------------------------------------------
(* Bounds of the inputs *)

\* an endpoint is a concatenation of at most MaxParts pieces
MaxParts == 2

Parts == {HTTP, HTTPS, <<"x">>, <<"h", "t">>}

RECURSIVE Concats(_)
Concats(n) ==
    IF n = 0 THEN {<<>>}
    ELSE {<<>>} \cup {p \o s : p \in Parts, s \in Concats(n - 1)}

Endpoints == Concats(MaxParts) \ {<<>>}

BucketOf(tag) == <<"b", "-">> \o tag
AccessOf(tag) == <<"a", "-">> \o tag
SecretOf(tag) == <<"s", "-">> \o tag
DefaultEndpoint == HTTPS \o <<"x">>

\* the four variables of one tag, all set, for every endpoint
CompleteBlocks(tag) ==
    {[f \in Fields |->
        CASE f = "BUCKET" -> BucketOf(tag)
          [] f = "ACCESS_KEY" -> AccessOf(tag)
          [] f = "SECRET_KEY" -> SecretOf(tag)
          [] f = "ENDPOINT" -> e] : e \in Endpoints}

\* the four variables of one tag with a non-empty subset unset (None) or empty;
\* a missing endpoint is unset, since what becomes of an empty host string is
\* decided by the client library and not by this code
MissingBlocks(tag) ==
    {[f \in Fields |->
        IF f \in M THEN (IF f = "ENDPOINT" THEN None ELSE kind)
        ELSE CASE f = "BUCKET" -> BucketOf(tag)
               [] f = "ACCESS_KEY" -> AccessOf(tag)
               [] f = "SECRET_KEY" -> SecretOf(tag)
               [] f = "ENDPOINT" -> DefaultEndpoint] :
        M \in (SUBSET Fields) \ {{}}, kind \in {None, <<>>}}

Blocks(tag) == CompleteBlocks(tag) \cup MissingBlocks(tag)

\* what the variables of the other tags hold when they are set as well
OtherValue(name) ==
    CASE name[2] = "BUCKET" -> <<"o">> \o BucketOf(name[1])
      [] name[2] = "ACCESS_KEY" -> <<"o">> \o AccessOf(name[1])
      [] name[2] = "SECRET_KEY" -> <<"o">> \o SecretOf(name[1])
      [] name[2] = "ENDPOINT" -> HTTP \o <<"o">> \o name[1]

----------------------------------------------------------------------------
(* Python built-ins *)

\* str.startswith(prefix)
startswith(s, prefix) ==
    /\ Len(s) >= Len(prefix)
    /\ SubSeq(s, 1, Len(prefix)) = prefix

\* str.replace(old, ""): every non-overlapping occurrence, left to right
RECURSIVE replace(_, _)
replace(s, old) ==
    IF s = <<>> THEN <<>>
    ELSE IF startswith(s, old)
         THEN replace(SubSeq(s, Len(old) + 1, Len(s)), old)
         ELSE <<Head(s)>> \o replace(Tail(s), old)

\* os.getenv(name): the value, or None when the variable is unset
getenv(name) == environ[name]

\* minio.Minio(endpoint, access_key=, secret_key=, secure=): construction is
\* local and the client handle is the record of the arguments it was built from
m(endpoint_url, access_key, secret_key, secure) ==
    [endpoint |-> endpoint_url, access_key |-> access_key,
     secret_key |-> secret_key, secure |-> secure]

----------------------------------------------------------------------------
(* class minio_file *)

NoClient == m(None, None, None, FALSE)

\* the object before __init__ assigns anything: attrs is the set of the
\* attribute names assigned so far
NoObject == [account |-> None, bucket_name |-> None, client |-> NoClient, attrs |-> {}]

\* the connection of the functional interface before one is returned
NoConnection == [client |-> NoClient, bucket_name |-> None]

\* kind is the error kind of the resolver's taxonomy; the exceptions the class
\* raises have none
NoException == [type |-> "", kind |-> "", message |-> <<>>]

NoCall == [fn |-> "", account |-> None, endpoint |-> None, access_key |-> None,
           secret_key |-> None, bucket |-> None]

\* no operation yet on the object: argv is sys.argv of a run of main
NoOp == [name |-> "", local |-> None, remote |-> None, bucket |-> None, argv |-> <<>>]

\* Python's None as a returned value
ReturnsNone == [type |-> "NoneType"]

\* the account whose variables _get_credentials reads: self.account, and not
\* one fixed tag
cred_account_HO(account) == HO

cred_account(account) == account

\* minio_file._get_credentials
_get_credentials(account) ==
    [bucket_name |-> getenv(EnvName(cred_account(account), "BUCKET")),
     access_key |-> getenv(EnvName(cred_account(account), "ACCESS_KEY")),
     secret_key |-> getenv(EnvName(cred_account(account), "SECRET_KEY")),
     endpoint |-> getenv(EnvName(cred_account(account), "ENDPOINT"))]

\* endpoint_url of _get_client
endpoint_url(endpoint) == replace(replace(endpoint, HTTP), HTTPS)

\* secure of _get_client: taken from cred["endpoint"] as read, and not from
\* endpoint_url
secure_of_url(endpoint) == startswith(endpoint_url(endpoint), HTTPS)

secure(endpoint) == startswith(endpoint, HTTPS)

\* raise (f"Incorrect account {account}"): the operand is a str, not an
\* exception, so the raise statement itself fails with TypeError
raise_str(text) ==
    [type |-> "TypeError", kind |-> "",
     message |-> <<"exceptions", "must", "derive", "from", "BaseException">>]

\* cred["endpoint"].replace(...) when getenv returned None
NoneType_replace ==
    [type |-> "AttributeError", kind |-> "",
     message |-> <<"'NoneType'", "object", "has", "no", "attribute", "'replace'">>]

Init ==
    /\ environ = [n \in EnvNames |-> None]
    /\ pc = "idle"
    /\ call = NoCall
    /\ self = NoObject
    /\ conn = NoConnection
    /\ raised = NoException
    /\ getenv_log = {}
    /\ m_log = <<>>
    /\ op = NoOp
    /\ client_calls = <<>>
    /\ result = ReturnsNone
    /\ stdout = <<>>
    /\ is_file_log = <<>>

\* patch.dict(os.environ, {...}, clear=True): the environment becomes the four
\* variables of one tag, alone or next to the other tags' own variables
PatchEnviron ==
    /\ pc = "idle"
    /\ \E tag \in KnownAccounts, others \in BOOLEAN : \E blk \in Blocks(tag) :
        environ' = [n \in EnvNames |->
                      IF n[1] = tag THEN blk[n[2]]
                      ELSE IF others THEN OtherValue(n) ELSE None]
    /\ UNCHANGED <<pc, call, self, conn, raised, getenv_log, m_log, op_vars>>

\* minio_file.__init__(account), with _get_client inlined
minio_file_init(account) ==
    /\ pc = "idle"
    /\ call' = [NoCall EXCEPT !.fn = "minio_file", !.account = account]
    /\ IF account \notin KnownAccounts
       THEN /\ raised' = raise_str(<<"Incorrect", "account">> \o account)
            /\ pc' = "raised"
            /\ self' = NoObject
            /\ getenv_log' = {}
            /\ m_log' = <<>>
       ELSE LET cred == _get_credentials(account)
                assigned == [NoObject EXCEPT !.account = account,
                                             !.bucket_name = cred.bucket_name,
                                             !.attrs = {"account", "bucket_name"}]
            IN  /\ getenv_log' = {EnvName(cred_account(account), f) : f \in Fields}
                /\ IF cred.endpoint = None
                   THEN /\ raised' = NoneType_replace
                        /\ pc' = "raised"
                        /\ self' = assigned
                        /\ m_log' = <<>>
                   ELSE LET client == m(endpoint_url(cred.endpoint), cred.access_key,
                                        cred.secret_key, secure(cred.endpoint))
                        IN  /\ raised' = NoException
                            /\ pc' = "returned"
                            /\ self' = [assigned EXCEPT !.client = client,
                                                        !.attrs = @ \cup {"client"}]
                            /\ m_log' = <<client>>
    /\ UNCHANGED <<environ, conn>>

Construct ==
    /\ \E account \in Accounts : minio_file_init(account)
    /\ UNCHANGED op_vars

----------------------------------------------------------------------------
(* create_connection: the connection resolver of the functional interface  *)

\* the explicit credential fields a caller may pass
ExplicitEndpoints == Parts \cup {HTTPS \o <<"x">>, HTTP \o <<"x">>}

ExplicitArgs ==
    [endpoint : {None} \cup ExplicitEndpoints, access_key : {None, <<"a">>},
     secret_key : {None, <<"b">>}, bucket : {None, <<"c">>}]

\* with an account tag, the explicit fields are each absent or one fixed value
MixedArgs ==
    [endpoint : {None, HTTP \o <<"e">>}, access_key : {None, <<"a">>},
     secret_key : {None, <<"b">>}, bucket : {None, <<"c">>}]

\* the explicit fields a call supplies
Supplied(args) ==
    {f \in {"endpoint", "access_key", "secret_key", "bucket"} : args[f] # None}

InvalidAccount ==
    [type |-> "ValueError", kind |-> "InvalidAccount",
     message |-> <<"Invalid", "account">>]

MissingEnvironment ==
    [type |-> "ValueError", kind |-> "MissingCredentials",
     message |-> <<"Missing", "required", "environment", "variables">>]

IncompleteExplicitCredentials ==
    [type |-> "ValueError", kind |-> "IncompleteExplicitCredentials",
     message |-> <<"you", "must", "provide">>]

\* neither an account nor any explicit field: MissingCredentials, and not the
\* error of an incomplete explicit bundle
NothingSuppliedIsIncomplete ==
    [type |-> "ValueError", kind |-> "IncompleteExplicitCredentials",
     message |-> <<"you", "must", "provide">>]

MissingCredentials ==
    [type |-> "ValueError", kind |-> "MissingCredentials", message |-> <<>>]

UsageError == [type |-> "ValueError", kind |-> "UsageError", message |-> <<>>]

\* endpoint normalisation: the optional scheme prefix is stripped, and not
\* passed on to the client
keep_scheme(endpoint) == endpoint

strip_scheme(endpoint) ==
    IF startswith(endpoint, HTTPS) THEN SubSeq(endpoint, Len(HTTPS) + 1, Len(endpoint))
    ELSE IF startswith(endpoint, HTTP) THEN SubSeq(endpoint, Len(HTTP) + 1, Len(endpoint))
    ELSE endpoint

\* the connection built from resolved credentials
connect(endpoint, access_key, secret_key, bucket) ==
    [client |-> m(strip_scheme(endpoint), access_key, secret_key,
                  startswith(endpoint, HTTPS)),
     bucket_name |-> bucket]

\* the call fails: nothing is returned
fails(exception) ==
    /\ raised' = exception
    /\ pc' = "raised"
    /\ conn' = NoConnection
    /\ m_log' = <<>>

\* the call returns the connection
returns(connection) ==
    /\ raised' = NoException
    /\ pc' = "returned"
    /\ conn' = connection
    /\ m_log' = <<connection.client>>

\* named-account mode: the four variables of the tag, all present and non-empty
from_environment(account) ==
    LET cred == _get_credentials(account)
    IN  /\ getenv_log' = {EnvName(account, f) : f \in Fields}
        /\ IF \E k \in DOMAIN cred : cred[k] \in {None, <<>>}
           THEN fails(MissingEnvironment)
           ELSE returns(connect(cred.endpoint, cred.access_key, cred.secret_key,
                                cred.bucket_name))

\* the explicit fields of a call: all four, or the call fails; a call with
\* fewer is never let through
incomplete_accepted(args) == FALSE

incomplete(args) == Supplied(args) # {"endpoint", "access_key", "secret_key", "bucket"}

from_arguments(args) ==
    /\ getenv_log' = {}
    /\ IF Supplied(args) = {} THEN fails(MissingCredentials)
       ELSE IF incomplete(args) THEN fails(IncompleteExplicitCredentials)
       ELSE returns(connect(args.endpoint, args.access_key, args.secret_key,
                            args.bucket))

\* create_connection(account, endpoint, access_key, secret_key, bucket); an
\* account tag together with explicit fields is rejected, or the account's
\* values take precedence
create_connection(account, args) ==
    /\ pc = "idle"
    /\ call' = [fn |-> "create_connection", account |-> account,
                endpoint |-> args.endpoint, access_key |-> args.access_key,
                secret_key |-> args.secret_key, bucket |-> args.bucket]
    /\ IF account # None
       THEN IF account \notin KnownAccounts
            THEN getenv_log' = {} /\ fails(InvalidAccount)
            ELSE \/ from_environment(account)
                 \/ /\ Supplied(args) # {}
                    /\ getenv_log' = {}
                    /\ fails(UsageError)
       ELSE from_arguments(args)
    /\ UNCHANGED <<environ, self, op_vars>>

Resolve ==
    \/ \E args \in ExplicitArgs : create_connection(None, args)
    \/ \E account \in Accounts, args \in MixedArgs : create_connection(account, args)

----------------------------------------------------------------------------
(* Operations on a constructed object *)

\* the file names and object names a caller passes to a transfer
Names == {<<"l">>, <<"r">>}

\* the bucket a caller of the functional interface passes, None when omitted
BucketArgs == {None, <<"o", "b">>}

\* client.fput_object(bucket_name=, file_path=, object_name=)
fput_object(client, bucket_name, file_path, object_name) ==
    [method |-> "fput_object", client |-> client, bucket_name |-> bucket_name,
     file_path |-> file_path, object_name |-> object_name,
     prefix |-> None, recursive |-> FALSE, reply |-> <<>>]

\* client.fget_object(file_path=, object_name=, bucket_name=)
fget_object(client, bucket_name, file_path, object_name) ==
    [method |-> "fget_object", client |-> client, bucket_name |-> bucket_name,
     file_path |-> file_path, object_name |-> object_name,
     prefix |-> None, recursive |-> FALSE, reply |-> <<>>]

\* the object constructed by minio_file(account) is at hand
HasObject == pc = "returned" /\ call.fn = "minio_file" /\ op.name # "main"

\* the connection returned by create_connection is at hand
HasConnection == pc = "returned" /\ call.fn = "create_connection"

\* an operation leaves the object, the connection and the environment alone
Delegated ==
    UNCHANGED <<environ, pc, call, self, conn, raised, getenv_log, m_log, is_file_log>>

\* minio_file.upload_file(file_name, full_name)
upload_file_swapped(file_name, full_name) ==
    /\ HasObject
    /\ op' = [NoOp EXCEPT !.name = "upload_file", !.local = file_name, !.remote = full_name]
    /\ client_calls' = <<fput_object(self.client, self.bucket_name, full_name, file_name)>>
    /\ result' = ReturnsNone
    /\ stdout' = <<>>
    /\ Delegated

upload_file(file_name, full_name) ==
    /\ HasObject
    /\ op' = [NoOp EXCEPT !.name = "upload_file", !.local = file_name, !.remote = full_name]
    /\ client_calls' = <<fput_object(self.client, self.bucket_name, file_name, full_name)>>
    /\ result' = ReturnsNone
    /\ stdout' = <<>>
    /\ Delegated

\* the body of minio_file.download_file on the object obj
download_file_body(obj, file_name, full_name) ==
    <<fget_object(obj.client, obj.bucket_name, file_name, full_name)>>

\* minio_file.download_file(file_name, full_name)
download_file(file_name, full_name) ==
    /\ HasObject
    /\ op' = [NoOp EXCEPT !.name = "download_file", !.local = file_name, !.remote = full_name]
    /\ client_calls' = download_file_body(self, file_name, full_name)
    /\ result' = ReturnsNone
    /\ stdout' = <<>>
    /\ Delegated

\* the bucket of a transfer of the functional interface: the caller's, or the
\* connection's default when the caller passes none
bucket_or_default(connection, bucket) ==
    IF bucket = None THEN connection.bucket_name ELSE bucket

\* upload_file(conn, local_path, remote_name, bucket=None)
upload(local_path, remote_name, bucket) ==
    /\ HasConnection
    /\ op' = [NoOp EXCEPT !.name = "upload_file", !.local = local_path,
                          !.remote = remote_name, !.bucket = bucket]
    /\ client_calls' = <<fput_object(conn.client, bucket_or_default(conn, bucket),
                                     local_path, remote_name)>>
    /\ result' = ReturnsNone
    /\ stdout' = <<>>
    /\ Delegated

\* download_file(conn, remote_name, local_path, bucket=None)
download(remote_name, local_path, bucket) ==
    /\ HasConnection
    /\ op' = [NoOp EXCEPT !.name = "download_file", !.local = local_path,
                          !.remote = remote_name, !.bucket = bucket]
    /\ client_calls' = <<fget_object(conn.client, bucket_or_default(conn, bucket),
                                     local_path, remote_name)>>
    /\ result' = ReturnsNone
    /\ stdout' = <<>>
    /\ Delegated

\* the objects and buckets the storage holds, as the client reports them
MaxObjects == 2
MaxBuckets == 2

Objects ==
    {[type |-> "Object", object_name |-> <<"a">>, size |-> 0,
      last_modified |-> <<"t", "1">>, etag |-> <<"e", "1">>, is_dir |-> FALSE],
     [type |-> "Object", object_name |-> <<"d", "/", "b">>, size |-> 120,
      last_modified |-> <<"t", "2">>, etag |-> <<"e", "2">>, is_dir |-> FALSE]}

Buckets ==
    {[type |-> "Bucket", name |-> <<"b", "1">>, creation_date |-> <<"t", "1">>],
     [type |-> "Bucket", name |-> <<"b", "2">>, creation_date |-> <<"t", "2">>]}

ObjectReplies == UNION {[1..n -> Objects] : n \in 0..MaxObjects}
BucketReplies == UNION {[1..n -> Buckets] : n \in 0..MaxBuckets}

\* the prefix a caller of the functional interface passes, None when omitted
Prefixes == {None, <<"d", "/">>}

\* client.list_objects(bucket_name, prefix=, recursive=), answering reply
list_objects(client, bucket_name, prefix, recursive, reply) ==
    [method |-> "list_objects", client |-> client, bucket_name |-> bucket_name,
     file_path |-> None, object_name |-> None,
     prefix |-> prefix, recursive |-> recursive, reply |-> reply]

\* client.list_buckets(), answering reply
list_buckets(client, reply) ==
    [method |-> "list_buckets", client |-> client, bucket_name |-> None,
     file_path |-> None, object_name |-> None,
     prefix |-> None, recursive |-> FALSE, reply |-> reply]

\* str(n) of a non-negative int
Digits == <<"0", "1", "2", "3", "4", "5", "6", "7", "8", "9">>

RECURSIVE str(_)
str(n) == IF n < 10 THEN <<Digits[n + 1]>>
          ELSE str(n \div 10) \o <<Digits[(n % 10) + 1]>>

\* f"{obj.object_name} ({obj.size} bytes)"
object_line(obj) ==
    obj.object_name \o <<" ", "(">> \o str(obj.size)
                    \o <<" ", "b", "y", "t", "e", "s", ")">>

\* a str and a list as return values
py_str(s) == [type |-> "str", value |-> s]
py_list(items) == [type |-> "list", items |-> items]

\* the body of minio_file.get_file_list on the object obj: its client call
\* and the lines it prints
get_file_list_body(obj, reply) ==
    <<list_objects(obj.client, obj.bucket_name, None, TRUE, reply)>>

get_file_list_print(reply) == [i \in 1..Len(reply) |-> object_line(reply[i])]

\* minio_file.get_file_list()
get_file_list(reply) ==
    /\ HasObject
    /\ op' = [NoOp EXCEPT !.name = "get_file_list"]
    /\ client_calls' = get_file_list_body(self, reply)
    /\ stdout' = get_file_list_print(reply)
    /\ result' = ReturnsNone
    /\ Delegated

\* get_buckets, had it built its client anew
get_buckets_reconnects(reply) ==
    /\ HasObject
    /\ op' = [NoOp EXCEPT !.name = "get_buckets"]
    /\ client_calls' = <<list_buckets(self.client, reply)>>
    /\ result' = py_list(reply)
    /\ stdout' = <<>>
    /\ m_log' = Append(m_log, self.client)
    /\ UNCHANGED <<environ, pc, call, self, conn, raised, getenv_log, is_file_log>>

\* minio_file.get_buckets()
get_buckets(reply) ==
    /\ HasObject
    /\ op' = [NoOp EXCEPT !.name = "get_buckets"]
    /\ client_calls' = <<list_buckets(self.client, reply)>>
    /\ result' = py_list(reply)
    /\ stdout' = <<>>
    /\ Delegated

\* the record list_files returns for one object
file_record(obj) ==
    [type |-> "dict", object_name |-> obj.object_name, size |-> obj.size,
     last_modified |-> obj.last_modified, etag |-> obj.etag]

\* list_files(conn, prefix=None)
list_files(prefix, reply) ==
    /\ HasConnection
    /\ op' = [NoOp EXCEPT !.name = "list_files", !.remote = prefix]
    /\ client_calls' = <<list_objects(conn.client, conn.bucket_name, prefix, TRUE, reply)>>
    /\ result' = py_list([i \in 1..Len(reply) |-> file_record(reply[i])])
    /\ stdout' = <<>>
    /\ Delegated

\* get_buckets(conn)
bucket_names(reply) ==
    /\ HasConnection
    /\ op' = [NoOp EXCEPT !.name = "get_buckets"]
    /\ client_calls' = <<list_buckets(conn.client, reply)>>
    /\ result' = py_list([i \in 1..Len(reply) |-> py_str(reply[i].name)])
    /\ stdout' = <<>>
    /\ Delegated

Listing ==
    \/ \E reply \in ObjectReplies : get_file_list(reply)
    \/ \E reply \in BucketReplies : get_buckets(reply)
    \/ \E prefix \in Prefixes, reply \in ObjectReplies : list_files(prefix, reply)
    \/ \E reply \in BucketReplies : bucket_names(reply)

Transfer ==
    \/ \E file_name \in Names, full_name \in Names : upload_file(file_name, full_name)
    \/ \E file_name \in Names, full_name \in Names : download_file(file_name, full_name)
    \/ \E local \in Names, remote \in Names, bucket \in BucketArgs :
           upload(local, remote, bucket)
    \/ \E local \in Names, remote \in Names, bucket \in BucketArgs :
           download(remote, local, bucket)

----------------------------------------------------------------------------
(* main(): the command line *)

\* the command-line arguments: argv[1] over a small alphabet, the others fixed
MaxPathLen == 3
PathChars == {"a", ".", "/"}
Paths == UNION {[1..n -> PathChars] : n \in 0..MaxPathLen}
OtherArgs == {<<"l">>, <<"/", "m">>}
Program == <<"m", "i", "n", "i", "o", "_", "f", "i", "l", "e">>

Argvs ==
    {<<Program>>}
    \cup {<<Program, p>> : p \in Paths}
    \cup {<<Program, p, q>> : p \in Paths, q \in OtherArgs}
    \cup {<<Program, p, q, q>> : p \in OtherArgs, q \in OtherArgs}

\* argv[i], counted from 0 as the code counts
arg(argv, i) == argv[i + 1]

\* s.split("/")
RECURSIVE split(_)
split(s) ==
    IF s = <<>> THEN << <<>> >>
    ELSE LET rest == split(Tail(s))
         IN  IF Head(s) = "/" THEN << <<>> >> \o rest
             ELSE << <<Head(s)>> \o rest[1] >> \o Tail(rest)

\* "/".join(parts)
RECURSIVE join(_)
join(parts) ==
    IF parts = <<>> THEN <<>>
    ELSE IF Len(parts) = 1 THEN parts[1]
    ELSE parts[1] \o <<"/">> \o join(Tail(parts))

\* the number of slashes s begins with
RECURSIVE leading_slashes(_)
leading_slashes(s) ==
    IF s = <<>> \/ Head(s) # "/" THEN 0 ELSE 1 + leading_slashes(Tail(s))

\* str(Path(s)) on a POSIX system: empty and "." components are dropped,
\* exactly two leading slashes are kept, more than two become one, and a path
\* with nothing left is "."
Path_str(s) ==
    LET parts == SelectSeq(split(s), LAMBDA c : c # <<>> /\ c # <<".">>)
        n == leading_slashes(s)
        root == IF n = 0 THEN <<>> ELSE IF n = 2 THEN <<"/", "/">> ELSE <<"/">>
    IN  IF root = <<>> /\ parts = <<>> THEN <<".">> ELSE root \o join(parts)

\* len(argv) == 3
two_arguments_one(argv) == Len(argv) = 2

two_arguments(argv) == Len(argv) = 3

\* ho_file = argv[1]
ho_file_ml(argv) == arg(argv, 2)

ho_file(argv) == arg(argv, 1)

\* main() with sys.argv = argv
main(argv) ==
    /\ minio_file_init(HO)
    /\ op' = [NoOp EXCEPT !.name = "main", !.argv = argv]
    /\ result' = ReturnsNone
    /\ IF pc' # "returned"
       THEN /\ client_calls' = <<>>
            /\ stdout' = <<>>
            /\ is_file_log' = <<>>
       ELSE IF two_arguments(argv)
       THEN \E is_file \in BOOLEAN :
               LET ho_obj == Path_str(ho_file(argv))
               IN  /\ is_file_log' = <<[path |-> ho_obj, is_file |-> is_file]>>
                   /\ IF is_file
                      THEN /\ stdout' = << <<"Skipping existing file: ">> \o ho_obj >>
                           /\ client_calls' = <<>>
                      ELSE /\ stdout' = <<>>
                           /\ client_calls' =
                                  download_file_body(self', ho_file(argv), ho_obj)
       ELSE \E reply \in ObjectReplies :
               /\ is_file_log' = <<>>
               /\ stdout' = << <<"\nListing objects in bucket:">> >>
                                \o get_file_list_print(reply)
               /\ client_calls' = get_file_list_body(self', reply)

Main == \E argv \in Argvs : main(argv)

\* the caller drops its reference to the object, or handles the exception
Drop ==
    /\ pc # "idle"
    /\ pc' = "idle"
    /\ call' = NoCall
    /\ self' = NoObject
    /\ conn' = NoConnection
    /\ raised' = NoException
    /\ getenv_log' = {}
    /\ m_log' = <<>>
    /\ op' = NoOp
    /\ client_calls' = <<>>
    /\ result' = ReturnsNone
    /\ stdout' = <<>>
    /\ is_file_log' = <<>>
    /\ UNCHANGED environ

Next == PatchEnviron \/ Construct \/ Resolve \/ Drop

Spec == Init /\ [][Next]_vars

----------------------------------------------------------------------------
(* The operations and the command line, in a few environments *)

\* the variables of one tag complete, or lacking the endpoint
OperationBlocks(tag) ==
    {blk \in Blocks(tag) :
        /\ blk["ENDPOINT"] \in {DefaultEndpoint, None}
        /\ blk["ACCESS_KEY"] = AccessOf(tag)
        /\ blk["SECRET_KEY"] = SecretOf(tag)
        /\ blk["BUCKET"] = BucketOf(tag)}

OperationEnvironments ==
    {[n \in EnvNames |-> None]} \cup
    UNION {{[n \in EnvNames |->
                IF n[1] = tag THEN blk[n[2]]
                ELSE IF others THEN OtherValue(n) ELSE None] :
            blk \in OperationBlocks(tag), others \in BOOLEAN} : tag \in KnownAccounts}

InitOperations ==
    /\ environ \in OperationEnvironments
    /\ pc = "idle"
    /\ call = NoCall
    /\ self = NoObject
    /\ conn = NoConnection
    /\ raised = NoException
    /\ getenv_log = {}
    /\ m_log = <<>>
    /\ op = NoOp
    /\ client_calls = <<>>
    /\ result = ReturnsNone
    /\ stdout = <<>>
    /\ is_file_log = <<>>

NextOperations == Construct \/ Resolve \/ Transfer \/ Listing \/ Main \/ Drop

SpecOperations == InitOperations /\ [][NextOperations]_vars

----------------------------------------------------------------------------
(* Properties *)

\* msg contains the words of phrase, in order and adjacent
Contains(msg, phrase) ==
    \E i \in 1..(Len(msg) + 1) :
        /\ i + Len(phrase) - 1 <= Len(msg)
        /\ \A j \in 1..Len(phrase) : msg[i + j - 1] = phrase[j]

\* s is prefix followed by rest
IsPrefixThenRest(s, prefix, rest) == s = prefix \o rest

BeginsWith(s, prefix) ==
    \E n \in 0..Len(s) : IsPrefixThenRest(s, prefix, SubSeq(s, Len(s) - n + 1, Len(s)))

\* host is s without its leading scheme, and s itself when it has none
IsSchemeStripped(s, host) ==
    IF BeginsWith(s, HTTPS) THEN IsPrefixThenRest(s, HTTPS, host)
    ELSE IF BeginsWith(s, HTTP) THEN IsPrefixThenRest(s, HTTP, host)
    ELSE host = s

\* the class was constructed, or failed to be, for a known account
LegacyCall == call.fn = "minio_file" /\ pc # "idle"

ResolveCall == call.fn = "create_connection" /\ pc # "idle"

EnvOf(account, field) == environ[EnvName(account, field)]

AllSet(account) == \A f \in Fields : EnvOf(account, f) \notin {None, <<>>}

\* C1: for every known account tag whose four environment variables are set,
\* the constructor succeeds, bucket_name is that tag's BUCKET value and the
\* client is built from that same tag's access key, secret key and endpoint,
\* with secure true exactly for an https:// endpoint
C1_AccountResolvesFromItsOwnVariables ==
    (LegacyCall /\ call.account \in KnownAccounts /\ AllSet(call.account)) =>
        /\ pc = "returned"
        /\ raised = NoException
        /\ self.account = call.account
        /\ self.bucket_name = EnvOf(call.account, "BUCKET")
        /\ self.client.access_key = EnvOf(call.account, "ACCESS_KEY")
        /\ self.client.secret_key = EnvOf(call.account, "SECRET_KEY")
        /\ self.client.endpoint = endpoint_url(EnvOf(call.account, "ENDPOINT"))
        /\ self.client.secure = BeginsWith(EnvOf(call.account, "ENDPOINT"), HTTPS)

\* an account other than HO is resolved while every tag has its own variables
C1_Witness ==
    /\ LegacyCall /\ pc = "returned"
    /\ call.account = ML
    /\ AllSet(ML) /\ AllSet(HO)
    /\ EnvOf(ML, "ENDPOINT") = HTTPS \o <<"x">>
    /\ self.bucket_name = BucketOf(ML)
    /\ self.client.secure

\* C2: an account tag outside the known set fails with a ValueError whose
\* message contains "Invalid account", whatever the environment holds, without
\* reading the environment and without constructing a client
C2_InvalidAccountIsValueError ==
    (LegacyCall /\ call.account \notin KnownAccounts) =>
        /\ pc = "raised"
        /\ raised.type = "ValueError"
        /\ Contains(raised.message, <<"Invalid", "account">>)
        /\ getenv_log = {}
        /\ m_log = <<>>

\* C3: a known account tag with one or more of its four environment variables
\* unset or empty fails with a ValueError whose message contains "Missing
\* required environment variables"
C3_MissingVariablesIsValueError ==
    (LegacyCall /\ call.account \in KnownAccounts /\ ~AllSet(call.account)) =>
        /\ pc = "raised"
        /\ raised.type = "ValueError"
        /\ Contains(raised.message, <<"Missing", "required", "environment", "variables">>)

\* C4: the bucket_name of a successfully constructed connection is a non-empty
\* string
C4_BucketNameNonEmpty ==
    pc = "returned" =>
        /\ call.fn = "minio_file" => self.bucket_name \notin {None, <<>>}
        /\ call.fn = "create_connection" => conn.bucket_name \notin {None, <<>>}

\* C5: the secure flag passed to the client is true exactly when the endpoint as
\* read, before any stripping, begins with https://; it is false for an
\* http:// endpoint and for an endpoint without a scheme
C5_SecureFromOriginalEndpoint ==
    (LegacyCall /\ pc = "returned") =>
        LET original == EnvOf(call.account, "ENDPOINT")
        IN  /\ Len(m_log) = 1
            /\ m_log[1].secure = BeginsWith(original, HTTPS)
            /\ BeginsWith(original, HTTP) => ~m_log[1].secure
            /\ (~BeginsWith(original, HTTP) /\ ~BeginsWith(original, HTTPS)) =>
                   ~m_log[1].secure

\* the client was built for an https:// endpoint, whose stripped form no longer
\* begins with https://
C5_Witness ==
    /\ LegacyCall /\ pc = "returned"
    /\ EnvOf(call.account, "ENDPOINT") = HTTPS \o <<"x">>
    /\ m_log[1].endpoint = <<"x">>
    /\ m_log[1].secure

\* C6: the host passed to the client is the endpoint with its leading http://
\* or https:// stripped and nothing else changed
C6_OnlyLeadingSchemeStripped ==
    (LegacyCall /\ pc = "returned") =>
        IsSchemeStripped(EnvOf(call.account, "ENDPOINT"), m_log[1].endpoint)

Explicit == {"endpoint", "access_key", "secret_key", "bucket"}

SuppliedByCall == {f \in Explicit : call[f] # None}

\* C7: without an account and with all four explicit fields, resolution
\* succeeds without reading the environment; bucket_name is the supplied
\* bucket, the host is the endpoint without its scheme, the keys are the
\* supplied keys and secure is true for an https:// endpoint
C7_ExplicitCredentialsResolve ==
    (ResolveCall /\ call.account = None /\ SuppliedByCall = Explicit) =>
        /\ pc = "returned"
        /\ raised = NoException
        /\ getenv_log = {}
        /\ conn.bucket_name = call.bucket
        /\ conn.client.access_key = call.access_key
        /\ conn.client.secret_key = call.secret_key
        /\ IsSchemeStripped(call.endpoint, conn.client.endpoint)
        /\ conn.client.secure = BeginsWith(call.endpoint, HTTPS)

\* explicit credentials with an https:// endpoint were resolved while the
\* environment holds credentials of its own
C7_Witness ==
    /\ ResolveCall /\ pc = "returned"
    /\ call.account = None
    /\ call.endpoint = HTTPS \o <<"x">>
    /\ AllSet(HO)
    /\ conn.client.endpoint = <<"x">>
    /\ conn.client.secure
    /\ conn.bucket_name = <<"c">>

\* C8: without an account and with a non-empty proper subset of the explicit
\* fields, resolution fails with IncompleteExplicitCredentials, a ValueError
\* whose message contains "you must provide", and returns no connection
C8_IncompleteExplicitCredentialsFail ==
    (ResolveCall /\ call.account = None
        /\ SuppliedByCall # {} /\ SuppliedByCall # Explicit) =>
        /\ pc = "raised"
        /\ raised.kind = "IncompleteExplicitCredentials"
        /\ raised.type = "ValueError"
        /\ Contains(raised.message, <<"you", "must", "provide">>)
        /\ conn = NoConnection
        /\ m_log = <<>>

\* endpoint and access key were supplied, secret key and bucket were not
C8_Witness ==
    /\ ResolveCall /\ pc = "raised"
    /\ call.account = None
    /\ SuppliedByCall = {"endpoint", "access_key"}
    /\ raised = IncompleteExplicitCredentials

C9_NoArgumentsReached ==
    /\ ResolveCall /\ pc = "raised"
    /\ call.account = None /\ SuppliedByCall = {}
    /\ AllSet(HO)
    /\ raised.kind = "MissingCredentials"

\* C10: when resolution ends in an error, no attribute of the connection
\* (account, bucket_name, client) has been assigned and no connection is
\* returned
C10_NoPartialObject ==
    pc = "raised" =>
        /\ self.attrs = {}
        /\ self = NoObject
        /\ conn = NoConnection

\* the last step was a transfer (upload_file or download_file)
IsTransfer == op.name \in {"upload_file", "download_file"}

\* the bucket and the client the transfer falls back on: the object's, or the
\* connection's
DefaultBucket == IF call.fn = "minio_file" THEN self.bucket_name ELSE conn.bucket_name
Handle == IF call.fn = "minio_file" THEN self.client ELSE conn.client

\* C11: every transfer issues exactly one client call, fput_object for an
\* upload and fget_object for a download, on the caller's bucket when one is
\* given and on the default bucket otherwise, with file_path the local path
\* and object_name the remote name
C11_TransferIsOneClientCall ==
    IsTransfer =>
        /\ Len(client_calls) = 1
        /\ client_calls[1].method =
               (IF op.name = "upload_file" THEN "fput_object" ELSE "fget_object")
        /\ client_calls[1].client = Handle
        /\ client_calls[1].bucket_name =
               (IF op.bucket = None THEN DefaultBucket ELSE op.bucket)
        /\ client_calls[1].file_path = op.local
        /\ client_calls[1].object_name = op.remote

\* an upload through the constructed object whose two names differ
C11_Witness ==
    /\ IsTransfer /\ call.fn = "minio_file"
    /\ op.name = "upload_file"
    /\ op.local # op.remote
    /\ Len(client_calls) = 1
    /\ client_calls[1].bucket_name = BucketOf(call.account)

\* a download through a connection with a bucket of the caller's
C11_CustomBucketReached ==
    /\ IsTransfer /\ call.fn = "create_connection"
    /\ op.name = "download_file"
    /\ op.bucket = <<"o", "b">>
    /\ op.local # op.remote
    /\ Len(client_calls) = 1
    /\ conn.bucket_name # op.bucket

\* the last step listed the files of the default bucket
IsListing == op.name \in {"get_file_list", "list_files"}

\* C12: a listing asks the client once for the objects of the default bucket,
\* recursively and with the caller's prefix, and returns one record per object
\* the client reports, in the client's order, holding that object's
\* object_name, size, last_modified and etag
C12_ListingReturnsOneRecordPerObject ==
    IsListing =>
        /\ Len(client_calls) = 1
        /\ client_calls[1].method = "list_objects"
        /\ client_calls[1].bucket_name = DefaultBucket
        /\ client_calls[1].recursive
        /\ client_calls[1].prefix = op.remote
        /\ result.type = "list"
        /\ Len(result.items) = Len(client_calls[1].reply)
        /\ \A i \in 1..Len(result.items) :
               LET obj == client_calls[1].reply[i]
                   rec == result.items[i]
               IN /\ rec.object_name = obj.object_name
                  /\ rec.size = obj.size
                  /\ rec.last_modified = obj.last_modified
                  /\ rec.etag = obj.etag

\* get_file_list of the constructed object, with two objects in the bucket
C12_GetFileListReached ==
    /\ op.name = "get_file_list"
    /\ Len(client_calls) = 1
    /\ Len(client_calls[1].reply) = 2
    /\ client_calls[1].reply[1] # client_calls[1].reply[2]
    /\ result = ReturnsNone
    /\ Len(stdout) = 2

\* the last step asked for the buckets
IsGetBuckets == op.name = "get_buckets"

\* C13: get_buckets returns the names of the buckets the client reports, one
\* string per bucket and in the client's order
C13_GetBucketsReturnsNames ==
    IsGetBuckets =>
        /\ Len(client_calls) = 1
        /\ client_calls[1].method = "list_buckets"
        /\ result = py_list([i \in 1..Len(client_calls[1].reply) |->
                                py_str(client_calls[1].reply[i].name)])

\* get_buckets of the constructed object, with two buckets reported
C13_GetBucketsReached ==
    /\ IsGetBuckets /\ call.fn = "minio_file"
    /\ Len(client_calls) = 1
    /\ Len(client_calls[1].reply) = 2
    /\ result.items = client_calls[1].reply

\* main() has run
IsMain == op.name = "main"

\* the number of positional arguments main() was run with
Positional == Len(op.argv) - 1

\* the calls of main() to one method of the client
CallsTo(method) == SelectSeq(client_calls, LAMBDA c : c.method = method)

\* C14: main() with no positional argument lists the objects of the default
\* bucket and issues no download; with two it issues exactly one download
\* and no listing, unless the local file exists, and then no call at all
\* reaches the client. The calls that are issued presuppose that the "HO"
\* object was constructed.
C14_MainListsOrDownloads ==
    IsMain =>
        /\ Positional = 0 =>
              /\ CallsTo("fget_object") = <<>>
              /\ pc = "returned" =>
                    /\ Len(client_calls) = 1
                    /\ client_calls[1].method = "list_objects"
                    /\ client_calls[1].bucket_name = self.bucket_name
        /\ Positional = 2 =>
              /\ CallsTo("list_objects") = <<>>
              /\ pc = "returned" =>
                    /\ Len(is_file_log) = 1
                    /\ IF is_file_log[1].is_file
                       THEN client_calls = <<>>
                       ELSE /\ Len(client_calls) = 1
                            /\ client_calls[1].method = "fget_object"
        /\ pc # "returned" => client_calls = <<>>

\* main() with two arguments and no local file: one download
C14_Witness ==
    /\ IsMain /\ pc = "returned"
    /\ Positional = 2
    /\ ~is_file_log[1].is_file
    /\ Len(client_calls) = 1
    /\ client_calls[1].method = "fget_object"

\* main() with two arguments and the local file present: skipped
C14_SkipReached ==
    /\ IsMain /\ pc = "returned"
    /\ Positional = 2
    /\ is_file_log[1].is_file
    /\ client_calls = <<>>
    /\ Len(stdout) = 1

\* main() without arguments, two objects in the bucket
C14_ListReached ==
    /\ IsMain /\ pc = "returned"
    /\ Positional = 0
    /\ Len(client_calls) = 1
    /\ Len(client_calls[1].reply) = 2
    /\ Len(stdout) = 3

\* main() without arguments when the "HO" variables are not set
C14_UnresolvedReached ==
    /\ IsMain /\ pc = "raised"
    /\ Positional = 0
    /\ client_calls = <<>>

\* C15: between construction and the drop of the reference no operation
\* changes the object or the connection: bucket_name and client stay the ones
\* assigned at construction, and the one client built by the resolution is
\* the only one built
C15_NotMutatedAfterConstruction ==
    /\ [](pc = "returned" => /\ Len(m_log) = 1
                             /\ Handle = m_log[1])
    /\ [][(pc = "returned" /\ pc' = "returned") =>
              /\ self' = self
              /\ conn' = conn
              /\ m_log' = m_log]_vars

\* get_buckets has run on the constructed object, one bucket reported
C15_Witness ==
    /\ pc = "returned" /\ call.fn = "minio_file"
    /\ op.name = "get_buckets"
    /\ Len(client_calls) = 1
    /\ Len(client_calls[1].reply) = 1
    /\ self.client = m_log[1]
    /\ self.bucket_name = BucketOf(call.account)

\* the same on a connection of the functional interface
C15_ConnectionReached ==
    /\ pc = "returned" /\ call.fn = "create_connection"
    /\ op.name = "list_files"
    /\ Len(client_calls) = 1
    /\ conn.client = m_log[1]

\* main() ran with two positional arguments on a constructed object
TwoArgumentForm == IsMain /\ Positional = 2 /\ pc = "returned"

\* the account main() resolves is "HO"
MainResolvesHO ==
    /\ call.account = HO
    /\ getenv_log = {EnvName(HO, f) : f \in Fields}

\* C16 as claimed: in the two-argument form the check for an existing file is
\* made on the path of the first argument, a download has both file_path and
\* object_name equal to the first argument, the second argument shows in no
\* call and no output, and the account is "HO"
C16_FirstArgumentIsBothNames ==
    IsMain =>
        /\ MainResolvesHO
        /\ TwoArgumentForm =>
              LET first == arg(op.argv, 1)
              IN  /\ Len(is_file_log) = 1
                  /\ is_file_log[1].path = Path_str(first)
                  /\ IF is_file_log[1].is_file
                     THEN /\ client_calls = <<>>
                          /\ stdout = << <<"Skipping existing file: ">> \o Path_str(first) >>
                     ELSE /\ stdout = <<>>
                          /\ client_calls = <<fget_object(self.client, self.bucket_name,
                                                          first, first)>>

\* the first argument holds no separator and is not empty
IsPlain(s) == s # <<>> /\ \A i \in 1..Len(s) : s[i] # "/"

\* C16 amended: in the two-argument form the check for an existing file is
\* made on the path of the first argument, a download has file_path equal to
\* the first argument and object_name equal to str(Path(first argument)),
\* which is the first argument itself when that holds no separator; the
\* second argument shows in no call and no output, and the account is "HO"
C16_FirstArgumentDeterminesTransfer ==
    IsMain =>
        /\ MainResolvesHO
        /\ TwoArgumentForm =>
              LET first == arg(op.argv, 1)
              IN  /\ Len(is_file_log) = 1
                  /\ is_file_log[1].path = Path_str(first)
                  /\ IF is_file_log[1].is_file
                     THEN /\ client_calls = <<>>
                          /\ stdout = << <<"Skipping existing file: ">> \o Path_str(first) >>
                     ELSE /\ stdout = <<>>
                          /\ client_calls = <<fget_object(self.client, self.bucket_name,
                                                          first, Path_str(first))>>
                          /\ IsPlain(first) => client_calls[1].object_name = first

\* a download whose first argument is not in the form pathlib prints
C16_Witness ==
    /\ TwoArgumentForm
    /\ ~is_file_log[1].is_file
    /\ Len(client_calls) = 1
    /\ client_calls[1].file_path = <<".", "/", "a">>
    /\ client_calls[1].object_name = <<"a">>
    /\ arg(op.argv, 2) # arg(op.argv, 1)

\* a download whose first argument is a plain name
C16_PlainReached ==
    /\ TwoArgumentForm
    /\ ~is_file_log[1].is_file
    /\ IsPlain(arg(op.argv, 1))
    /\ client_calls[1].file_path = client_calls[1].object_name

====
